---------------------------- MODULE Spec2Model ----------------------------
(***************************************************************************)
(* Model of the sit-up counter: SitUpAnalyzer (src/pose_utils.py) driven   *)
(* frame by frame, and the host operations of src/app.py that replace or   *)
(* reset the analyzer.                                                     *)
(*                                                                         *)
(* Units.  Angles are held in thousandths of a degree (60 degrees is       *)
(* 60000).  rep_data.hip_movement holds |hip_y - initial_hip_y| in pixels, *)
(* i.e. the code's value multiplied by frame_shape[0]; knee_movement holds *)
(* the squared pixel distance, i.e. the square of the code's value times   *)
(* frame_shape[0]^2.  Every frame of a session has the same height, so     *)
(* max() and the threshold comparisons are the same in both units.         *)
(***************************************************************************)
EXTENDS Integers, Sequences, FiniteSets, TLC

(* ------------------------------ bounds -------------------------------- *)

\* analyze_situp is not called any more once this many reps are counted
MaxReps == 2

\* frame_shape[0] of every frame of the session
FrameHeight == 200

(* --------------------------- program constants ------------------------ *)

UP_ANGLE_THRESHOLD == 60
DOWN_ANGLE_THRESHOLD == 40
CORRECT_ANGLE_LOW == 60
CORRECT_ANGLE_HIGH == 100
\* 0.15 and 0.08, in hundredths
HIP_MOVEMENT_THRESHOLD == 15
KNEE_MOVEMENT_THRESHOLD == 8
\* "self.UP_ANGLE_THRESHOLD + 5" and "self.DOWN_ANGLE_THRESHOLD + 15"
UP_BUFFER == 5
DOWN_SLACK == 15
\* "len(keypoints) < 4"
MIN_KEYPOINTS == 4

Deg(n) == n * 1000

PoseState == {"DOWN", "GOING_UP", "UP", "GOING_DOWN"}

\* landmark ids kept by get_landmark_coordinates, and the ids analyze_situp reads
KeptIds == {11, 12, 23, 24, 25, 26, 27, 28}
RequiredIds == <<11, 12, 23, 24, 25, 26>>

(* ------------------------------ inputs -------------------------------- *)

Add(p, q) == <<p[1] + q[1], p[2] + q[2]>>

\* torso vectors (shoulder - hip, image coordinates: y grows downwards),
\* nominally 30, 35, 50, 61, 70, 90, 95 and 110 degrees
V30 == <<87, -50>>
V35 == <<82, -57>>
V50 == <<64, -77>>
V61 == <<48, -87>>
V70 == <<34, -94>>
V90 == <<0, -100>>
V95 == <<-9, -100>>
V110 == <<-34, -94>>
TorsoVectors == {V35, V50, V61, V70, V110}

\* the torso vectors of the scenario sessions
ScenarioVectors == {V30, V35, V50, V61, V70, V90, V95, V110}

\* hip midpoints: at rest, lifted by 0.15 of the frame height, lifted by 0.20
HipRest == <<100, 150>>
HipPoints == {HipRest, <<100, 120>>, <<100, 110>>}

\* knee midpoints: at rest, moved by 0.08 of the frame height, moved by more
KneeRest == <<160, 150>>
KneePoints == {KneeRest, <<160, 134>>, <<172, 138>>}

AnklePoint == <<220, 150>>

\* a body with both sides of every pair at the same pixel
Body(v, hip, knee) ==
    [i \in KeptIds |->
        CASE i \in {11, 12} -> Add(hip, v)
          [] i \in {23, 24} -> hip
          [] i \in {25, 26} -> knee
          [] OTHER -> AnklePoint]

Only(kp, ids) == [i \in ids |-> kp[i]]

\* a frame is what the caller passes as keypoints: None, or a mapping
NoneFrame == [is_none |-> TRUE, kp |-> <<>>]
Mapping(kp) == [is_none |-> FALSE, kp |-> kp]

FullFrame(v, hip, knee) == Mapping(Only(Body(v, hip, knee), {11, 12, 23, 24, 25, 26}))

\* all six required landmarks, hip and knee at rest
RestFrames == {FullFrame(v, HipRest, KneeRest) : v \in TorsoVectors}
ScenarioFrames == {FullFrame(v, HipRest, KneeRest) : v \in ScenarioVectors}

\* all six required landmarks at 50 degrees, hip or knee away from rest
MovedFrames ==
    {FullFrame(V50, hip, KneeRest) : hip \in HipPoints \ {HipRest}}
        \cup {FullFrame(V50, HipRest, knee) : knee \in KneePoints \ {KneeRest}}

\* mappings with fewer than four entries
ShortFrames ==
    {Mapping(Only(Body(V70, HipRest, KneeRest), ids)) : ids \in {{}, {27, 28}, {11, 23, 25}}}

\* mappings with four or five entries of which some required ones are absent:
\* both shoulders and both ankles (35 degrees against the placeholder hip),
\* shoulders and hips without knees (50 degrees), and all but the right
\* shoulder (the halved left shoulder gives 110 degrees)
PlaceholderFrames ==
    { Mapping(Only([Body(V70, HipRest, KneeRest) EXCEPT ![11] = <<82, 57>>, ![12] = <<82, 57>>],
                   {11, 12, 27, 28})),
      Mapping(Only(Body(V50, HipRest, KneeRest), {11, 12, 23, 24})),
      Mapping(Only([Body(V70, HipRest, KneeRest) EXCEPT ![11] = <<132, 112>>],
                   {11, 23, 24, 25, 26})) }

Frames == RestFrames \cup MovedFrames \cup ShortFrames \cup PlaceholderFrames \cup {NoneFrame}

(* ------------------------- PoseAnalyzer (geometry) -------------------- *)

\* abs(degrees(arctan2(t[2], t[1]))) in thousandths of a degree, tabulated for
\* the torso vectors the frames above produce (arctan2(0, 0) is 0)
AbsAtan2Deg(t) ==
    CASE t = <<87, -50>> -> 29887
      [] t = <<82, -57>> -> 34804
      [] t = <<64, -77>> -> 50268
      [] t = <<48, -87>> -> 61113
      [] t = <<34, -94>> -> 70115
      [] t = <<0, -100>> -> 90000
      [] t = <<-9, -100>> -> 95143
      [] t = <<-34, -94>> -> 109885
      [] t = <<82, 57>> -> 34804
      [] t = <<0, 0>> -> 0

calculate_torso_angle(shoulder, hip, knee) ==
    LET torso_vector == <<shoulder[1] - hip[1], shoulder[2] - hip[2]>>
    IN  AbsAtan2Deg(torso_vector)

\* keypoints.get(idx, (0, 0))
Get(kp, idx) == IF idx \in DOMAIN kp THEN kp[idx] ELSE <<0, 0>>

\* ((l[0] + r[0]) // 2, (l[1] + r[1]) // 2)
Midpoint(l, r) == <<(l[1] + r[1]) \div 2, (l[2] + r[2]) \div 2>>

Abs(n) == IF n < 0 THEN -n ELSE n
Max(a, b) == IF a >= b THEN a ELSE b
Min(a, b) == IF a <= b THEN a ELSE b

\* square of distance.euclidean(p, q)
EuclideanSq(p, q) == (p[1] - q[1]) * (p[1] - q[1]) + (p[2] - q[2]) * (p[2] - q[2])

(* ------------------------------ SitUpAnalyzer ------------------------- *)

\* SitUpAnalyzer(): the attributes initial_hip_y and initial_knee do not exist
\* until the first rep opens; they are held as <<>> (absent) or <<value>>
NewSitUpAnalyzer ==
    [ state |-> "DOWN",
      correct_count |-> 0,
      incorrect_count |-> 0,
      rep_in_progress |-> FALSE,
      max_torso_angle |-> Deg(0),
      min_torso_angle |-> Deg(180),
      rep_data |-> [max_angle |-> Deg(0), min_angle |-> Deg(180),
                    hip_movement |-> 0, knee_movement |-> 0],
      initial_hip_y |-> <<>>,
      initial_knee |-> <<>>,
      last_feedback |-> "Starting...",
      missing_keypoints |-> <<>> ]

\* "not keypoints or len(keypoints) < 4": None and the empty mapping are falsy
KeypointsMissing(frame) ==
    \/ frame.is_none
    \/ Cardinality(DOMAIN frame.kp) = 0
    \/ Cardinality(DOMAIN frame.kp) < MIN_KEYPOINTS

\* the required ids that are not keys of the mapping, in the order of the loop
MissingList(kp) == SelectSeq(RequiredIds, LAMBDA idx : idx \notin DOMAIN kp)

\* rep_data['hip_movement'] > 0.15 and rep_data['knee_movement'] > 0.08
HipExceeds(hip_movement) == hip_movement * 100 > HIP_MOVEMENT_THRESHOLD * FrameHeight
KneeExceeds(knee_movement) ==
    knee_movement * 10000 > KNEE_MOVEMENT_THRESHOLD * KNEE_MOVEMENT_THRESHOLD * FrameHeight * FrameHeight

\* the mutant of _check_form_correctness: the stability gates use >= for >
_check_form_correctness_StrictGates(rep_data) ==
    IF ~(Deg(CORRECT_ANGLE_LOW) <= rep_data.max_angle /\ rep_data.max_angle <= Deg(CORRECT_ANGLE_HIGH))
    THEN FALSE
    ELSE IF rep_data.min_angle > Deg(DOWN_ANGLE_THRESHOLD + DOWN_SLACK) THEN FALSE
    ELSE IF rep_data.hip_movement * 100 >= HIP_MOVEMENT_THRESHOLD * FrameHeight THEN FALSE
    ELSE IF KneeExceeds(rep_data.knee_movement) THEN FALSE
    ELSE TRUE

_check_form_correctness(rep_data) ==
    IF ~(Deg(CORRECT_ANGLE_LOW) <= rep_data.max_angle /\ rep_data.max_angle <= Deg(CORRECT_ANGLE_HIGH))
    THEN FALSE
    ELSE IF rep_data.min_angle > Deg(DOWN_ANGLE_THRESHOLD + DOWN_SLACK) THEN FALSE
    ELSE IF HipExceeds(rep_data.hip_movement) THEN FALSE
    ELSE IF KneeExceeds(rep_data.knee_movement) THEN FALSE
    ELSE TRUE

\* the mutant of TrackWindow: max_angle takes the current angle, not the maximum
TrackWindow_LastAngle(self, torso_angle, hip, knee) ==
    IF self.rep_in_progress
    THEN [self EXCEPT !.rep_data =
            [ max_angle |-> torso_angle,
              min_angle |-> Min(self.rep_data.min_angle, torso_angle),
              hip_movement |-> Max(self.rep_data.hip_movement, Abs(hip[2] - self.initial_hip_y[1])),
              knee_movement |-> Max(self.rep_data.knee_movement, EuclideanSq(knee, self.initial_knee[1])) ]]
    ELSE self

\* the mutant of TrackWindow: min_angle is not tracked
TrackWindow_NoMin(self, torso_angle, hip, knee) ==
    IF self.rep_in_progress
    THEN [self EXCEPT !.rep_data =
            [ max_angle |-> Max(self.rep_data.max_angle, torso_angle),
              min_angle |-> self.rep_data.min_angle,
              hip_movement |-> Max(self.rep_data.hip_movement, Abs(hip[2] - self.initial_hip_y[1])),
              knee_movement |-> Max(self.rep_data.knee_movement, EuclideanSq(knee, self.initial_knee[1])) ]]
    ELSE self

\* the mutant of TrackWindow: the displacements are the current ones, not the peaks
TrackWindow_CurrentDisplacement(self, torso_angle, hip, knee) ==
    IF self.rep_in_progress
    THEN [self EXCEPT !.rep_data =
            [ max_angle |-> Max(self.rep_data.max_angle, torso_angle),
              min_angle |-> Min(self.rep_data.min_angle, torso_angle),
              hip_movement |-> Abs(hip[2] - self.initial_hip_y[1]),
              knee_movement |-> EuclideanSq(knee, self.initial_knee[1]) ]]
    ELSE self

\* "if self.rep_in_progress:" block: extrema and displacement accumulators
TrackWindow(self, torso_angle, hip, knee) ==
    IF self.rep_in_progress
    THEN [self EXCEPT !.rep_data =
            [ max_angle |-> Max(self.rep_data.max_angle, torso_angle),
              min_angle |-> Min(self.rep_data.min_angle, torso_angle),
              hip_movement |->
                  IF self.initial_hip_y # <<>>
                  THEN Max(self.rep_data.hip_movement, Abs(hip[2] - self.initial_hip_y[1]))
                  ELSE self.rep_data.hip_movement,
              knee_movement |->
                  IF self.initial_knee # <<>>
                  THEN Max(self.rep_data.knee_movement, EuclideanSq(knee, self.initial_knee[1]))
                  ELSE self.rep_data.knee_movement ]]
    ELSE self

\* what a branch of the state machine yields when its guard is false
Stay(self) == [self |-> self, feedback |-> "Good form", rep_completed |-> FALSE]

\* the mutant of FromDown: the window is extended, not replaced
FromDown_KeepsWindow(self, torso_angle, hip, knee) ==
    IF torso_angle > Deg(UP_ANGLE_THRESHOLD)
    THEN [self |-> [self EXCEPT !.state = "GOING_UP",
                                !.rep_in_progress = TRUE,
                                !.initial_hip_y = <<hip[2]>>,
                                !.initial_knee = <<knee>>,
                                !.rep_data.max_angle = Max(@, torso_angle),
                                !.rep_data.min_angle = Min(@, torso_angle)],
          feedback |-> "Going up!", rep_completed |-> FALSE]
    ELSE Stay(self)

\* "if self.state == PoseState.DOWN:" - opens the window
FromDown(self, torso_angle, hip, knee) ==
    IF torso_angle > Deg(UP_ANGLE_THRESHOLD)
    THEN [self |-> [self EXCEPT !.state = "GOING_UP",
                                !.rep_in_progress = TRUE,
                                !.initial_hip_y = <<hip[2]>>,
                                !.initial_knee = <<knee>>,
                                !.rep_data = [max_angle |-> torso_angle,
                                              min_angle |-> torso_angle,
                                              hip_movement |-> 0,
                                              knee_movement |-> 0]],
          feedback |-> "Going up!", rep_completed |-> FALSE]
    ELSE Stay(self)

\* the mutant of FromGoingUp: "Going up!" on every frame that stays in GOING_UP
FromGoingUp_RepeatsFeedback(self, torso_angle, hip, knee) ==
    LET s1 == IF torso_angle >= self.rep_data.max_angle
              THEN [self EXCEPT !.rep_data.max_angle = torso_angle]
              ELSE self
    IN  IF torso_angle > Deg(UP_ANGLE_THRESHOLD + UP_BUFFER)
        THEN [self |-> [s1 EXCEPT !.state = "UP"],
              feedback |-> "Up position!", rep_completed |-> FALSE]
        ELSE [self |-> s1, feedback |-> "Going up!", rep_completed |-> FALSE]

\* the mutant of FromGoingUp: an angle below the down threshold abandons the rep
FromGoingUp_FallsBack(self, torso_angle, hip, knee) ==
    LET s1 == IF torso_angle >= self.rep_data.max_angle
              THEN [self EXCEPT !.rep_data.max_angle = torso_angle]
              ELSE self
    IN  IF torso_angle > Deg(UP_ANGLE_THRESHOLD + UP_BUFFER)
        THEN [self |-> [s1 EXCEPT !.state = "UP"],
              feedback |-> "Up position!", rep_completed |-> FALSE]
        ELSE IF torso_angle < Deg(DOWN_ANGLE_THRESHOLD)
        THEN [self |-> [s1 EXCEPT !.state = "DOWN", !.rep_in_progress = FALSE],
              feedback |-> "Good form", rep_completed |-> FALSE]
        ELSE [self |-> s1, feedback |-> "Good form", rep_completed |-> FALSE]

\* "elif self.state == PoseState.GOING_UP:"
FromGoingUp(self, torso_angle, hip, knee) ==
    LET s1 == IF torso_angle >= self.rep_data.max_angle
              THEN [self EXCEPT !.rep_data.max_angle = torso_angle]
              ELSE self
    IN  IF torso_angle > Deg(UP_ANGLE_THRESHOLD + UP_BUFFER)
        THEN [self |-> [s1 EXCEPT !.state = "UP"],
              feedback |-> "Up position!", rep_completed |-> FALSE]
        ELSE [self |-> s1, feedback |-> "Good form", rep_completed |-> FALSE]

\* the mutant of FromUp: a fast drop below the down threshold skips GOING_DOWN
FromUp_SkipsGoingDown(self, torso_angle, hip, knee) ==
    IF torso_angle < Deg(DOWN_ANGLE_THRESHOLD)
    THEN [self |-> [self EXCEPT !.state = "DOWN", !.rep_in_progress = FALSE],
          feedback |-> "Going down!", rep_completed |-> FALSE]
    ELSE IF torso_angle < Deg(UP_ANGLE_THRESHOLD)
    THEN [self |-> [self EXCEPT !.state = "GOING_DOWN"],
          feedback |-> "Going down!", rep_completed |-> FALSE]
    ELSE Stay(self)

\* "elif self.state == PoseState.UP:"
FromUp(self, torso_angle, hip, knee) ==
    IF torso_angle < Deg(UP_ANGLE_THRESHOLD)
    THEN [self |-> [self EXCEPT !.state = "GOING_DOWN"],
          feedback |-> "Going down!", rep_completed |-> FALSE]
    ELSE Stay(self)

\* the mutant of CloseRep: an incorrect rep is also counted as a rep done
CloseRep_CountsTwice(self) ==
    LET s1 == [self EXCEPT !.state = "DOWN", !.rep_in_progress = FALSE]
    IN  IF _check_form_correctness(s1.rep_data)
        THEN [self |-> [s1 EXCEPT !.correct_count = @ + 1],
              feedback |-> "Correct rep! +1", rep_completed |-> TRUE]
        ELSE [self |-> [s1 EXCEPT !.incorrect_count = @ + 1, !.correct_count = @ + 1],
              feedback |-> "Incorrect form", rep_completed |-> TRUE]

\* the mutant of CloseRep: an incorrect rep clears correct_count
CloseRep_StreakReset(self) ==
    LET s1 == [self EXCEPT !.state = "DOWN", !.rep_in_progress = FALSE]
    IN  IF _check_form_correctness(s1.rep_data)
        THEN [self |-> [s1 EXCEPT !.correct_count = @ + 1],
              feedback |-> "Correct rep! +1", rep_completed |-> TRUE]
        ELSE [self |-> [s1 EXCEPT !.incorrect_count = @ + 1, !.correct_count = 0],
              feedback |-> "Incorrect form", rep_completed |-> TRUE]

\* the mutant of CloseRep: rep_in_progress is not cleared
CloseRep_KeepsFlag(self) ==
    LET s1 == [self EXCEPT !.state = "DOWN"]
    IN  IF _check_form_correctness(s1.rep_data)
        THEN [self |-> [s1 EXCEPT !.correct_count = @ + 1],
              feedback |-> "Correct rep! +1", rep_completed |-> TRUE]
        ELSE [self |-> [s1 EXCEPT !.incorrect_count = @ + 1],
              feedback |-> "Incorrect form", rep_completed |-> TRUE]

\* the body of "if torso_angle < self.DOWN_ANGLE_THRESHOLD:" - closes the window
CloseRep(self) ==
    LET s1 == [self EXCEPT !.state = "DOWN", !.rep_in_progress = FALSE]
    IN  IF _check_form_correctness(s1.rep_data)
        THEN [self |-> [s1 EXCEPT !.correct_count = @ + 1],
              feedback |-> "Correct rep! +1", rep_completed |-> TRUE]
        ELSE [self |-> [s1 EXCEPT !.incorrect_count = @ + 1],
              feedback |-> "Incorrect form", rep_completed |-> TRUE]

\* "elif self.state == PoseState.GOING_DOWN:"
FromGoingDown(self, torso_angle, hip, knee) ==
    IF torso_angle < Deg(DOWN_ANGLE_THRESHOLD)
    THEN CloseRep(self)
    ELSE Stay(self)

\* the state machine: the new analyzer with the feedback and rep_completed
StateMachine(self, torso_angle, hip, knee) ==
    CASE self.state = "DOWN" -> FromDown(self, torso_angle, hip, knee)
      [] self.state = "GOING_UP" -> FromGoingUp(self, torso_angle, hip, knee)
      [] self.state = "UP" -> FromUp(self, torso_angle, hip, knee)
      [] self.state = "GOING_DOWN" -> FromGoingDown(self, torso_angle, hip, knee)

\* the mutant of MissingFrame: an undetectable frame abandons the open rep
MissingFrame_AbandonsRep(self, frame) ==
    IF frame.is_none
    THEN [self |-> [self EXCEPT !.missing_keypoints = <<>>],
          raised |-> "TypeError", feedback |-> "", ids |-> <<>>,
          rep_completed |-> FALSE, angle |-> 0]
    ELSE [self |-> [self EXCEPT !.missing_keypoints = MissingList(frame.kp),
                                !.state = "DOWN", !.rep_in_progress = FALSE],
          raised |-> "none", feedback |-> "Missing keypoints: ",
          ids |-> MissingList(frame.kp),
          rep_completed |-> FALSE, angle |-> 0]

\* the mutant of MissingFrame: the keypoints-missing message becomes last_feedback
MissingFrame_SetsFeedback(self, frame) ==
    IF frame.is_none
    THEN [self |-> [self EXCEPT !.missing_keypoints = <<>>],
          raised |-> "TypeError", feedback |-> "", ids |-> <<>>,
          rep_completed |-> FALSE, angle |-> 0]
    ELSE [self |-> [self EXCEPT !.missing_keypoints = MissingList(frame.kp),
                                !.last_feedback = "Missing keypoints: "],
          raised |-> "none", feedback |-> "Missing keypoints: ",
          ids |-> MissingList(frame.kp),
          rep_completed |-> FALSE, angle |-> 0]

\* the body of "if not keypoints or len(keypoints) < 4:".  With None,
\* self.missing_keypoints = [] is done and then "idx not in keypoints" raises
\* TypeError; with a mapping the absent required ids are listed and returned
MissingFrame(self, frame) ==
    IF frame.is_none
    THEN [self |-> [self EXCEPT !.missing_keypoints = <<>>],
          raised |-> "TypeError", feedback |-> "", ids |-> <<>>,
          rep_completed |-> FALSE, angle |-> 0]
    ELSE [self |-> [self EXCEPT !.missing_keypoints = MissingList(frame.kp)],
          raised |-> "none", feedback |-> "Missing keypoints: ",
          ids |-> MissingList(frame.kp),
          rep_completed |-> FALSE, angle |-> 0]

\* the mutant of analyze_situp: the window is tracked after the state machine
analyze_situp_TrackAfter(self, frame) ==
    IF KeypointsMissing(frame)
    THEN MissingFrame(self, frame)
    ELSE LET shoulder == Midpoint(Get(frame.kp, 11), Get(frame.kp, 12))
             hip == Midpoint(Get(frame.kp, 23), Get(frame.kp, 24))
             knee == Midpoint(Get(frame.kp, 25), Get(frame.kp, 26))
             torso_angle == calculate_torso_angle(shoulder, hip, knee)
             stepped == StateMachine(self, torso_angle, hip, knee)
             tracked == TrackWindow(stepped.self, torso_angle, hip, knee)
         IN  [self |-> [tracked EXCEPT !.last_feedback = stepped.feedback],
              raised |-> "none", feedback |-> stepped.feedback, ids |-> <<>>,
              rep_completed |-> stepped.rep_completed, angle |-> torso_angle]

\* analyze_situp(keypoints, frame_shape): the analyzer after the call and what
\* the call returned, or the exception it raised
analyze_situp(self, frame) ==
    IF KeypointsMissing(frame)
    THEN MissingFrame(self, frame)
    ELSE LET shoulder == Midpoint(Get(frame.kp, 11), Get(frame.kp, 12))
             hip == Midpoint(Get(frame.kp, 23), Get(frame.kp, 24))
             knee == Midpoint(Get(frame.kp, 25), Get(frame.kp, 26))
             torso_angle == calculate_torso_angle(shoulder, hip, knee)
             tracked == TrackWindow(self, torso_angle, hip, knee)
             stepped == StateMachine(tracked, torso_angle, hip, knee)
         IN  [self |-> [stepped.self EXCEPT !.last_feedback = stepped.feedback],
              raised |-> "none", feedback |-> stepped.feedback, ids |-> <<>>,
              rep_completed |-> stepped.rep_completed, angle |-> torso_angle]

\* round(correct / total * 100, 2), in hundredths of a percent
Accuracy(correct, total) ==
    IF total > 0 THEN (2 * correct * 10000 + total) \div (2 * total) ELSE 0

\* the mutant of get_counts: total leaves the incorrect reps out
get_counts_TotalIsCorrect(self) ==
    [self |-> self,
     value |-> [kind |-> "counts",
                correct |-> self.correct_count,
                incorrect |-> self.incorrect_count,
                total |-> self.correct_count,
                accuracy |-> Accuracy(self.correct_count, self.correct_count)]]

\* get_counts(): the dictionary it returns and the analyzer it leaves
get_counts(self) ==
    LET total == self.correct_count + self.incorrect_count
    IN  [self |-> self,
         value |-> [kind |-> "counts",
                    correct |-> self.correct_count,
                    incorrect |-> self.incorrect_count,
                    total |-> total,
                    accuracy |-> Accuracy(self.correct_count, total)]]

\* get_debug_info(): the dictionary it returns and the analyzer it leaves
get_debug_info(self) ==
    [self |-> self,
     value |-> [kind |-> "debug",
                missing_keypoints |-> self.missing_keypoints,
                state |-> self.state,
                rep_in_progress |-> self.rep_in_progress,
                last_feedback |-> self.last_feedback]]

(* ------------------------------- state -------------------------------- *)

VARIABLES
    analyzer,     \* the SitUpAnalyzer instance the host holds (app.py: analyzer)
    ret,          \* what the last call returned or raised
    last_op,      \* the operation that produced the current state
    last_in,      \* the keypoints argument of the last analyze_situp call
    closures,     \* frames of this session on which GOING_DOWN -> DOWN fired
    win,          \* observer of the open window: anchors and peak displacements
    perfect,      \* how many frames of PerfectRep the session consists of so far
    reply,        \* what the last get_counts() / get_debug_info() returned
    streams       \* the /process frame loops of the host, one per request thread

vars == <<analyzer, ret, last_op, last_in, closures, win, perfect, reply, streams>>

NoReturn == [raised |-> "none", feedback |-> "", ids |-> <<>>,
             rep_completed |-> FALSE, angle |-> 0]

NoInput == [is_none |-> FALSE, ids |-> {}]

NoWindow == [hip_y |-> 0, knee |-> <<0, 0>>, hip_peak |-> 0, knee_peak |-> 0]

NoReply == [kind |-> "none"]

\* the request threads that may run generate_frames (app.run(threaded=True))
Threads == {1, 2}

\* no frame loop is running.  pc[t] is where the generator of thread t stands:
\* "idle" (none), "loop" (at the head of the while loop), "calling" (inside
\* analyzer.analyze_situp).  stale[t]: the global analyzer was replaced since
\* stream t began; foreign[t]: t entered analyze_situp when it was stale, so on
\* an analyzer made after its stream began; lost[t]: the global analyzer was
\* replaced while t is inside analyze_situp, so the call works on the analyzer
\* object that is no longer the global one
NoStreams == [processing |-> FALSE,
              pc |-> [t \in Threads |-> "idle"],
              stale |-> [t \in Threads |-> FALSE],
              foreign |-> [t \in Threads |-> FALSE],
              lost |-> [t \in Threads |-> FALSE]]

\* the scenario "perfect rep": 30, 70, 90, 95, 90, 50, 35 degrees, hip and knee at rest
PerfectRep ==
    << FullFrame(V30, HipRest, KneeRest), FullFrame(V70, HipRest, KneeRest),
       FullFrame(V90, HipRest, KneeRest), FullFrame(V95, HipRest, KneeRest),
       FullFrame(V90, HipRest, KneeRest), FullFrame(V50, HipRest, KneeRest),
       FullFrame(V35, HipRest, KneeRest) >>

Init ==
    /\ analyzer = NewSitUpAnalyzer
    /\ ret = NoReturn
    /\ last_op = "init"
    /\ last_in = NoInput
    /\ closures = 0
    /\ win = NoWindow
    /\ perfect = 0
    /\ reply = NoReply
    /\ streams = NoStreams

\* the hip and knee midpoints analyze_situp derives from a processed frame
HipOf(frame) == Midpoint(Get(frame.kp, 23), Get(frame.kp, 24))
KneeOf(frame) == Midpoint(Get(frame.kp, 25), Get(frame.kp, 26))

\* observer: on the opening frame take the anchors, on every later processed
\* frame of the window raise the peaks
Observe(w, before, after, frame) ==
    IF before.state = "DOWN" /\ after.state = "GOING_UP"
    THEN [hip_y |-> HipOf(frame)[2], knee |-> KneeOf(frame), hip_peak |-> 0, knee_peak |-> 0]
    ELSE IF before.rep_in_progress
    THEN [w EXCEPT !.hip_peak = Max(@, Abs(HipOf(frame)[2] - w.hip_y)),
                   !.knee_peak = Max(@, EuclideanSq(KneeOf(frame), w.knee))]
    ELSE w

\* the effect of one call analyzer.analyze_situp(keypoints, frame.shape)
Analyze(frame) ==
    LET r == analyze_situp(analyzer, frame)
        processed == ~KeypointsMissing(frame)
    IN  /\ analyzer' = r.self
        /\ ret' = [raised |-> r.raised, feedback |-> r.feedback, ids |-> r.ids,
                   rep_completed |-> r.rep_completed, angle |-> r.angle]
        /\ last_op' = "analyze_situp"
        /\ last_in' = [is_none |-> frame.is_none, ids |-> DOMAIN frame.kp]
        /\ closures' = IF analyzer.state = "GOING_DOWN" /\ r.self.state = "DOWN"
                       THEN closures + 1 ELSE closures
        /\ win' = IF processed THEN Observe(win, analyzer, r.self, frame) ELSE win
        /\ perfect' = IF perfect >= 0 /\ perfect < Len(PerfectRep)
                         /\ frame = PerfectRep[perfect + 1]
                      THEN perfect + 1 ELSE -1

\* one call analyzer.analyze_situp(keypoints, frame.shape) by the frame loop
AnalyzeFrame(frames) ==
    /\ analyzer.correct_count + analyzer.incorrect_count < MaxReps
    /\ \E frame \in frames : Analyze(frame)
    /\ reply' = NoReply
    /\ UNCHANGED streams

\* POST /upload: with a file the host replaces the analyzer by a new one
UploadVideo ==
    \E has_file \in BOOLEAN :
        /\ last_op' = "upload"
        /\ ret' = NoReturn
        /\ last_in' = NoInput
        /\ reply' = NoReply
        /\ IF has_file
           THEN /\ analyzer' = NewSitUpAnalyzer
                /\ closures' = 0
                /\ win' = NoWindow
                /\ perfect' = 0
                /\ streams' = [streams EXCEPT
                       !.stale = [t \in Threads |-> streams.pc[t] # "idle"],
                       !.lost = [t \in Threads |-> streams.pc[t] = "calling"]]
           ELSE UNCHANGED <<analyzer, closures, win, perfect, streams>>

\* POST /reset_counts: analyzer.reset_counts() - SitUpAnalyzer defines no such
\* method, so the attribute lookup raises and the analyzer is not touched
ResetCounts ==
    /\ last_op' = "reset_counts"
    /\ ret' = [NoReturn EXCEPT !.raised = "AttributeError"]
    /\ last_in' = NoInput
    /\ reply' = NoReply
    /\ UNCHANGED <<analyzer, closures, win, perfect, streams>>

\* a read of the analyzer: GET /get_counts calls analyzer.get_counts()
GetCounts ==
    LET r == get_counts(analyzer)
    IN  /\ analyzer' = r.self
        /\ reply' = r.value
        /\ last_op' = "get_counts"
        /\ ret' = NoReturn
        /\ last_in' = NoInput
        /\ UNCHANGED <<closures, win, perfect, streams>>

\* a read of the analyzer: analyzer.get_debug_info()
GetDebugInfo ==
    LET r == get_debug_info(analyzer)
    IN  /\ analyzer' = r.self
        /\ reply' = r.value
        /\ last_op' = "get_debug_info"
        /\ ret' = NoReturn
        /\ last_in' = NoInput
        /\ UNCHANGED <<closures, win, perfect, streams>>

Next == AnalyzeFrame(Frames) \/ UploadVideo \/ ResetCounts

Spec == Init /\ [][Next]_vars

\* sessions of fully detected frames with hip and knee at rest, and empty frames
NextScenario == AnalyzeFrame(ScenarioFrames \cup {Mapping(<<>>)}) \/ UploadVideo \/ ResetCounts

SpecScenario == Init /\ [][NextScenario]_vars

\* the frames of the sessions whose counts and debug snapshot are read
ReadFrames == RestFrames \cup MovedFrames \cup {Mapping(<<>>)}

\* sessions in which the host reads the analyzer between the frames
NextReads ==
    \/ AnalyzeFrame(ReadFrames)
    \/ GetCounts
    \/ GetDebugInfo
    \/ UploadVideo
    \/ ResetCounts

SpecReads == Init /\ [][NextReads]_vars

\* pose_analyzer.get_keypoints(frame): the mappings the landmark provider of
\* the host hands to the frame loop
get_keypoints ==
    {FullFrame(v, HipRest, KneeRest) : v \in {V35, V70}} \cup {Mapping(<<>>)}

\* GET /process, first step of generate_frames: processing = True and the
\* video is opened
StreamBegin(t) ==
    /\ streams.pc[t] = "idle"
    /\ streams' = [streams EXCEPT !.processing = TRUE, !.pc[t] = "loop",
                                  !.stale[t] = FALSE, !.lost[t] = FALSE]
    /\ UNCHANGED <<analyzer, ret, last_op, last_in, closures, win, perfect, reply>>

\* one pass of "while processing and cap.isOpened()" up to the call
\* analyzer.analyze_situp(keypoints, frame.shape) on the analyzer the global
\* names at that moment; the thread stays inside the call until StreamRaise
StreamCall(t) ==
    /\ streams.pc[t] = "loop"
    /\ streams.processing
    /\ analyzer.correct_count + analyzer.incorrect_count < MaxReps
    /\ \E frame \in get_keypoints : Analyze(frame)
    /\ reply' = NoReply
    /\ streams' = [streams EXCEPT !.pc[t] = "calling",
                                  !.foreign[t] = streams.stale[t]]

\* the call returns its tuple into torso_angle and the overlay formats it with
\* f"{torso_angle:.1f}": TypeError, the generator ends, processing stays True
StreamRaise(t) ==
    /\ streams.pc[t] = "calling"
    /\ streams' = [streams EXCEPT !.pc[t] = "idle", !.stale[t] = FALSE,
                                  !.foreign[t] = FALSE, !.lost[t] = FALSE]
    /\ UNCHANGED <<analyzer, ret, last_op, last_in, closures, win, perfect, reply>>

\* the loop ends (processing is False or the video has no more frames):
\* cap.release(), processing = False
StreamEnd(t) ==
    /\ streams.pc[t] = "loop"
    /\ streams' = [streams EXCEPT !.processing = FALSE, !.pc[t] = "idle",
                                  !.stale[t] = FALSE]
    /\ UNCHANGED <<analyzer, ret, last_op, last_in, closures, win, perfect, reply>>

\* GET /stop
StopProcessing ==
    /\ streams.processing
    /\ streams' = [streams EXCEPT !.processing = FALSE]
    /\ UNCHANGED <<analyzer, ret, last_op, last_in, closures, win, perfect, reply>>

\* the host after a first upload: /process finds a video to open
InitHost ==
    /\ analyzer = NewSitUpAnalyzer
    /\ ret = NoReturn
    /\ last_op = "upload"
    /\ last_in = NoInput
    /\ closures = 0
    /\ win = NoWindow
    /\ perfect = 0
    /\ reply = NoReply
    /\ streams = NoStreams

\* the requests of the host, each on a thread of its own
NextHost ==
    \/ \E t \in Threads : StreamBegin(t)
    \/ \E t \in Threads : StreamCall(t)
    \/ \E t \in Threads : StreamRaise(t)
    \/ \E t \in Threads : StreamEnd(t)
    \/ StopProcessing
    \/ UploadVideo
    \/ ResetCounts

SpecHost == InitHost /\ [][NextHost]_vars

(* ------------------------------ properties ---------------------------- *)

\* the step is a call of analyze_situp
Called == last_op' = "analyze_situp"

\* the call took GOING_DOWN -> DOWN, resp. DOWN -> GOING_UP
Closing == Called /\ analyzer.state = "GOING_DOWN" /\ analyzer'.state = "DOWN"
Opening == Called /\ analyzer.state = "DOWN" /\ analyzer'.state = "GOING_UP"

\* the last call was analyze_situp and it processed its frame
Processed == last_op = "analyze_situp" /\ ret.raised = "none" /\ ret.feedback # "Missing keypoints: "

RequiredSet == {RequiredIds[k] : k \in DOMAIN RequiredIds}

\* C1 (cycle closure): the number of frames on which GOING_DOWN -> DOWN fired
\* equals correct_count + incorrect_count; a closing frame adds exactly 1 to
\* exactly one counter and every other frame leaves both counters alone.
C1_CycleClosure ==
    [][ /\ closures' = analyzer'.correct_count + analyzer'.incorrect_count
        /\ Called =>
             IF Closing
             THEN \/ /\ analyzer'.correct_count = analyzer.correct_count + 1
                     /\ analyzer'.incorrect_count = analyzer.incorrect_count
                  \/ /\ analyzer'.correct_count = analyzer.correct_count
                     /\ analyzer'.incorrect_count = analyzer.incorrect_count + 1
             ELSE /\ analyzer'.correct_count = analyzer.correct_count
                  /\ analyzer'.incorrect_count = analyzer.incorrect_count ]_vars

\* two reps closed in one session, one of each verdict
C1_Witness ==
    closures = 2 /\ analyzer.correct_count = 1 /\ analyzer.incorrect_count = 1

\* C2 (strict cycle): the machine starts in DOWN and a call either keeps the
\* state or moves it to its successor, under that successor's guard on the
\* frame's angle: > 60, > 65, < 60, < 40.
C2_StrictCycle ==
    /\ analyzer.state = "DOWN"
    /\ [][ Called =>
            \/ analyzer'.state = analyzer.state
            \/ /\ analyzer.state = "DOWN" /\ analyzer'.state = "GOING_UP"
               /\ ret'.angle > 60000
            \/ /\ analyzer.state = "GOING_UP" /\ analyzer'.state = "UP"
               /\ ret'.angle > 65000
            \/ /\ analyzer.state = "UP" /\ analyzer'.state = "GOING_DOWN"
               /\ ret'.angle < 60000
            \/ /\ analyzer.state = "GOING_DOWN" /\ analyzer'.state = "DOWN"
               /\ ret'.angle < 40000 ]_vars

\* a second lap of the cycle is under way
C2_Witness ==
    closures = 1 /\ analyzer.state = "GOING_DOWN" /\ Processed

\* C3 (missing-keypoint frame): a mapping with fewer than 4 of the 6 required
\* landmarks gets the keypoints-missing feedback with rep_completed false and
\* leaves state, rep_in_progress, the counters and the whole window unchanged,
\* also when the ankles 27/28 are in the mapping.
C3_FewRequiredIsMissingFrame ==
    [][ ( /\ Called
          /\ ~last_in'.is_none
          /\ Cardinality(last_in'.ids \cap RequiredSet) < 4 )
        => /\ ret'.feedback = "Missing keypoints: "
           /\ ~ret'.rep_completed
           /\ analyzer'.state = analyzer.state
           /\ analyzer'.rep_in_progress = analyzer.rep_in_progress
           /\ analyzer'.correct_count = analyzer.correct_count
           /\ analyzer'.incorrect_count = analyzer.incorrect_count
           /\ analyzer'.rep_data = analyzer.rep_data
           /\ analyzer'.initial_hip_y = analyzer.initial_hip_y
           /\ analyzer'.initial_knee = analyzer.initial_knee ]_vars

\* C4 (no required landmark): a frame containing none of the six required
\* landmarks never changes correct_count, incorrect_count or state.
C4_NoRequiredLandmarkNoChange ==
    [][ (Called /\ last_in'.ids \cap RequiredSet = {})
        => /\ analyzer'.state = analyzer.state
           /\ analyzer'.correct_count = analyzer.correct_count
           /\ analyzer'.incorrect_count = analyzer.incorrect_count ]_vars

\* an ankles-only frame arrived in the UP position, where the angle of the
\* placeholder points (0 degrees) would take the machine on to GOING_DOWN
C4_Witness ==
    /\ last_op = "analyze_situp"
    /\ last_in.ids = {27, 28}
    /\ analyzer.state = "UP"

\* C5 (form verdict): on the closing frame the rep is counted correct if and
\* only if 60 <= max_angle <= 100, min_angle <= 55, hip displacement <= 0.15
\* and knee displacement <= 0.08 on the closed window; otherwise incorrect.
C5_FormVerdict ==
    [][ Closing =>
          LET w == analyzer'.rep_data
              gates == /\ 60000 <= w.max_angle /\ w.max_angle <= 100000
                       /\ w.min_angle <= 55000
                       /\ w.hip_movement * 100 <= 15 * FrameHeight
                       /\ w.knee_movement * 10000 <= 64 * FrameHeight * FrameHeight
          IN  IF gates
              THEN /\ analyzer'.correct_count = analyzer.correct_count + 1
                   /\ analyzer'.incorrect_count = analyzer.incorrect_count
                   /\ ret'.feedback = "Correct rep! +1"
              ELSE /\ analyzer'.correct_count = analyzer.correct_count
                   /\ analyzer'.incorrect_count = analyzer.incorrect_count + 1
                   /\ ret'.feedback = "Incorrect form" ]_vars

\* a rep counted correct with the hip displacement exactly 0.15 and the knee
\* displacement exactly 0.08 of the frame height
C5_Witness ==
    /\ Processed /\ ret.rep_completed
    /\ ret.feedback = "Correct rep! +1"
    /\ analyzer.rep_data.hip_movement * 100 = 15 * FrameHeight
    /\ analyzer.rep_data.knee_movement * 10000 = 64 * FrameHeight * FrameHeight

\* C6 (monotonic extrema): while a window is open, across every call max_angle
\* never decreases and min_angle never increases, and after every processed
\* frame of the window min_angle <= current angle <= max_angle.
C6_MonotonicExtrema ==
    [][ Called =>
          /\ analyzer.rep_in_progress =>
                /\ analyzer'.rep_data.max_angle >= analyzer.rep_data.max_angle
                /\ analyzer'.rep_data.min_angle <= analyzer.rep_data.min_angle
          /\ (Processed' /\ (analyzer.rep_in_progress \/ analyzer'.rep_in_progress)) =>
                /\ analyzer'.rep_data.min_angle <= ret'.angle
                /\ ret'.angle <= analyzer'.rep_data.max_angle ]_vars

\* an open window whose current angle lies strictly between its extrema
C6_Witness ==
    /\ Processed /\ analyzer.rep_in_progress
    /\ analyzer.rep_data.min_angle < ret.angle
    /\ ret.angle < analyzer.rep_data.max_angle

\* C7 (reset): after the host's reset operation state = DOWN, rep_in_progress
\* is false and both counters are 0.
C7_ResetYieldsFreshAnalyzer ==
    last_op = "reset_counts" =>
        /\ analyzer.state = "DOWN"
        /\ ~analyzer.rep_in_progress
        /\ analyzer.correct_count = 0
        /\ analyzer.incorrect_count = 0

\* C8 (perfect rep): in a session of fully detected frames with hip and knee
\* at rest, the first rep to close with max_angle within [60,100] leaves state
\* DOWN with correct = 1 and incorrect = 0; so does the whole sequence
\* 30, 70, 90, 95, 90, 50, 35.
C8_PerfectRep ==
    /\ perfect = Len(PerfectRep) =>
          /\ analyzer.state = "DOWN"
          /\ analyzer.correct_count = 1 /\ analyzer.incorrect_count = 0
    /\ ( /\ Processed /\ ret.rep_completed /\ closures = 1
         /\ 60000 <= analyzer.rep_data.max_angle
         /\ analyzer.rep_data.max_angle <= 100000 ) =>
          /\ analyzer.state = "DOWN"
          /\ analyzer.correct_count = 1 /\ analyzer.incorrect_count = 0

\* the seven frames of the scenario have been fed to a new analyzer
C8_Witness == perfect = Len(PerfectRep) /\ ret.rep_completed

\* C9 (cheat detection): the hip (knee) displacement of the window is the
\* peak, over the processed frames of the window, of the distance from the
\* anchor of the opening frame; a rep in which it exceeded 0.15 (0.08) of the
\* frame height on any frame closes as incorrect.
C9_CheatDetection ==
    [][ Called =>
          /\ (analyzer'.rep_in_progress \/ Closing) =>
                /\ analyzer'.rep_data.hip_movement = win'.hip_peak
                /\ analyzer'.rep_data.knee_movement = win'.knee_peak
                /\ analyzer'.initial_hip_y = <<win'.hip_y>>
                /\ analyzer'.initial_knee = <<win'.knee>>
          /\ ( /\ Closing
               /\ \/ win'.hip_peak * 100 > 15 * FrameHeight
                  \/ win'.knee_peak * 10000 > 64 * FrameHeight * FrameHeight ) =>
                /\ analyzer'.incorrect_count = analyzer.incorrect_count + 1
                /\ analyzer'.correct_count = analyzer.correct_count ]_vars

\* a rep with good amplitude and still knees, whose hip was 0.20 of the frame
\* height off the anchor on one frame and back on it at the end
C9_Witness ==
    /\ Processed /\ ret.rep_completed
    /\ analyzer.incorrect_count = 1 /\ analyzer.correct_count = 0
    /\ analyzer.rep_data.max_angle <= 100000
    /\ win.hip_peak * 100 = 20 * FrameHeight
    /\ win.knee_peak = 0

\* C10 (never raises): for None, for the empty mapping and for a mapping with
\* fewer entries than required, analyze_situp returns the keypoints-missing
\* result instead of raising, and the state is unchanged.
C10_MissingNeverRaises ==
    [][ ( /\ Called
          /\ \/ last_in'.is_none
             \/ Cardinality(last_in'.ids) < MIN_KEYPOINTS )
        => /\ ret'.raised = "none"
           /\ ret'.feedback = "Missing keypoints: "
           /\ analyzer'.state = analyzer.state ]_vars

\* the last call was analyze_situp and it took the keypoints-missing return
MissingReturn ==
    last_op = "analyze_situp" /\ ret.raised = "none" /\ ret.feedback = "Missing keypoints: "

\* C11 (angle output): on every frame that cannot be processed the angle of
\* the per-frame output is none, that is no number of degrees at all, so that
\* such a frame cannot be taken for a frame whose torso angle is 0.
C11_MissingAngleIsNone ==
    MissingReturn => ret.angle \notin 0 .. Deg(180)

\* the elements of a sequence
Range(seq) == {seq[k] : k \in DOMAIN seq}

\* C12 (missing-keypoint reporting): after any frame that analyze_situp
\* returned from, the missing_keypoints of the debug snapshot are exactly the
\* required ids absent from that frame: no present id is listed, no absent
\* one is left out, and nothing of an earlier frame is carried over.
C12_MissingIdsAreExact ==
    (last_op = "analyze_situp" /\ ret.raised = "none")
        => Range(analyzer.missing_keypoints) = RequiredSet \ last_in.ids

\* C13 (reads): get_counts() and get_debug_info() change no field of the
\* analyzer, and get_counts() returns the two counters with total = correct +
\* incorrect, and accuracy 0 when total is 0.
C13_ReadsArePure ==
    [][ /\ last_op' \in {"get_counts", "get_debug_info"} => analyzer' = analyzer
        /\ last_op' = "get_counts"
            => /\ reply'.correct = analyzer.correct_count
               /\ reply'.incorrect = analyzer.incorrect_count
               /\ reply'.total = reply'.correct + reply'.incorrect
               /\ reply'.total = 0 => reply'.accuracy = 0
        /\ last_op' = "get_debug_info"
            => /\ reply'.missing_keypoints = analyzer.missing_keypoints
               /\ reply'.state = analyzer.state
               /\ reply'.rep_in_progress = analyzer.rep_in_progress
               /\ reply'.last_feedback = analyzer.last_feedback ]_vars

\* counts read after one correct and one incorrect rep: accuracy 50.00
C13_Witness ==
    /\ last_op = "get_counts"
    /\ reply.correct = 1 /\ reply.incorrect = 1
    /\ reply.total = 2 /\ reply.accuracy = 5000

\* C14 (counters persist): both counters are never negative, no call of
\* analyze_situp lowers either of them, and a counter gets smaller only by an
\* operator's request (an upload or a reset request), never by a frame or by
\* reading the counts or the debug snapshot.
C14_CountersPersist ==
    [][ /\ analyzer'.correct_count >= 0
        /\ analyzer'.incorrect_count >= 0
        /\ Called => /\ analyzer'.correct_count >= analyzer.correct_count
                     /\ analyzer'.incorrect_count >= analyzer.incorrect_count
        /\ ( \/ analyzer'.correct_count < analyzer.correct_count
             \/ analyzer'.incorrect_count < analyzer.incorrect_count )
            => last_op' \in {"upload", "reset_counts"} ]_vars

\* two reps, one correct and one incorrect, and then a read of the debug
\* snapshot: both counters still stand
C14_Witness ==
    /\ last_op = "get_debug_info"
    /\ closures = 2
    /\ analyzer.correct_count = 1 /\ analyzer.incorrect_count = 1

\* C15 (flag and state agree): rep_in_progress is true exactly when the state
\* is GOING_UP, UP or GOING_DOWN, and false exactly when it is DOWN.
C15_InProgressIffNotDown ==
    analyzer.rep_in_progress <=> analyzer.state \in {"GOING_UP", "UP", "GOING_DOWN"}

\* a rep was closed: back in DOWN with the flag cleared
C15_Witness ==
    /\ Processed /\ ret.rep_completed
    /\ analyzer.state = "DOWN" /\ ~analyzer.rep_in_progress

\* C16 (one frame loop per analyzer): with the host serving its requests on
\* several threads, a thread that is inside analyze_situp is the only one
\* inside it on that analyzer, and the analyzer it works on is the one its
\* stream began with.
C16_OneLoopPerAnalyzer ==
    \A t \in Threads :
        streams.pc[t] = "calling"
            => /\ ~streams.foreign[t]
               /\ \A u \in Threads \ {t} :
                      ~(streams.pc[u] = "calling" /\ ~streams.lost[u] /\ ~streams.lost[t])

\* C17 (window seeding): the frame that takes DOWN to GOING_UP replaces the
\* whole window: max_angle = min_angle = the angle of that frame, both
\* displacements 0, the anchors are that frame's hip y and knee midpoint.
\* Nothing of an earlier window or of the constructor's 0 / 180 is left, so
\* while a window is open min_angle <= max_angle and max_angle > 60.
C17_WindowSeeding ==
    [][ /\ Opening
            => /\ analyzer'.rep_data = [max_angle |-> ret'.angle,
                                        min_angle |-> ret'.angle,
                                        hip_movement |-> 0,
                                        knee_movement |-> 0]
               /\ analyzer'.initial_hip_y = <<win'.hip_y>>
               /\ analyzer'.initial_knee = <<win'.knee>>
        /\ analyzer'.rep_in_progress
            => /\ analyzer'.rep_data.min_angle <= analyzer'.rep_data.max_angle
               /\ analyzer'.rep_data.max_angle > Deg(UP_ANGLE_THRESHOLD) ]_vars

\* the second window of a session, opened at 61 degrees after a rep whose
\* window had gone above 65 and below 40
C17_Witness ==
    /\ closures = 1
    /\ Processed /\ ret.feedback = "Going up!"
    /\ ret.angle < Deg(UP_ANGLE_THRESHOLD + UP_BUFFER)
    /\ analyzer.rep_data.max_angle = ret.angle
    /\ analyzer.rep_data.min_angle = ret.angle

\* the call took the analyzer from state a to state b
Moved(a, b) == Called /\ analyzer.state = a /\ analyzer'.state = b

\* C18 (outputs match the transition): a call of analyze_situp returns
\* rep_completed = true exactly when it takes GOING_DOWN to DOWN; its feedback
\* is "Going up!", "Up position!", "Going down!" exactly when it takes DOWN to
\* GOING_UP, GOING_UP to UP, UP to GOING_DOWN; it is "Correct rep! +1" exactly
\* when the call added 1 to correct_count and "Incorrect form" exactly when it
\* added 1 to incorrect_count.
C18_OutputsMatchTransition ==
    [][ Called
        => /\ ret'.rep_completed <=> Moved("GOING_DOWN", "DOWN")
           /\ ret'.feedback = "Going up!" <=> Moved("DOWN", "GOING_UP")
           /\ ret'.feedback = "Up position!" <=> Moved("GOING_UP", "UP")
           /\ ret'.feedback = "Going down!" <=> Moved("UP", "GOING_DOWN")
           /\ ret'.feedback = "Correct rep! +1"
                <=> analyzer'.correct_count = analyzer.correct_count + 1
           /\ ret'.feedback = "Incorrect form"
                <=> analyzer'.incorrect_count = analyzer.incorrect_count + 1
           /\ analyzer'.correct_count \in {analyzer.correct_count, analyzer.correct_count + 1}
           /\ analyzer'.incorrect_count
                \in {analyzer.incorrect_count, analyzer.incorrect_count + 1} ]_vars

\* the frame that closes a rep as incorrect, after one that was counted correct
C18_Witness ==
    /\ Processed /\ ret.rep_completed
    /\ ret.feedback = "Incorrect form"
    /\ analyzer.state = "DOWN"
    /\ analyzer.correct_count = 1 /\ analyzer.incorrect_count = 1

\* C19 (the window of a completed rep): when a rep has just been completed
\* its window has max_angle > 65 and min_angle < 40, so of the four gates the
\* one on min_angle and the lower bound on max_angle cannot fail, and the rep
\* is counted incorrect exactly when max_angle > 100 or the hip moved more
\* than 0.15 or the knee more than 0.08 of the frame height.
C19_ClosedWindowAmplitude ==
    (Processed /\ ret.rep_completed)
        => /\ analyzer.rep_data.max_angle > Deg(UP_ANGLE_THRESHOLD + UP_BUFFER)
           /\ analyzer.rep_data.min_angle < Deg(DOWN_ANGLE_THRESHOLD)
           /\ analyzer.rep_data.max_angle >= Deg(CORRECT_ANGLE_LOW)
           /\ analyzer.rep_data.min_angle <= Deg(DOWN_ANGLE_THRESHOLD + DOWN_SLACK)
           /\ ret.feedback = "Incorrect form"
                <=> \/ analyzer.rep_data.max_angle > Deg(CORRECT_ANGLE_HIGH)
                    \/ HipExceeds(analyzer.rep_data.hip_movement)
                    \/ KneeExceeds(analyzer.rep_data.knee_movement)

\* a rep closed by the frame that is the minimum of its window, counted
\* incorrect for its maximum of 110 degrees alone
C19_Witness ==
    /\ Processed /\ ret.rep_completed
    /\ ret.feedback = "Incorrect form"
    /\ analyzer.rep_data.max_angle > Deg(CORRECT_ANGLE_HIGH)
    /\ analyzer.rep_data.min_angle = ret.angle
    /\ ~HipExceeds(analyzer.rep_data.hip_movement)
    /\ ~KneeExceeds(analyzer.rep_data.knee_movement)

\* C20 (GOING_UP has one exit): a call in state GOING_UP ends in GOING_UP or
\* UP; a processed frame of at most 65 degrees, below 40 included, leaves the
\* state GOING_UP, rep_in_progress true, both counters and both anchors as
\* they were; and as long as the window has seen no angle above 65 the state
\* is GOING_UP.
C20_GoingUpSingleExit ==
    [][ /\ (Called /\ analyzer.state = "GOING_UP")
            => analyzer'.state \in {"GOING_UP", "UP"}
        /\ ( /\ Called /\ analyzer.state = "GOING_UP"
             /\ ret'.raised = "none" /\ ret'.feedback # "Missing keypoints: "
             /\ ret'.angle <= Deg(UP_ANGLE_THRESHOLD + UP_BUFFER) )
            => /\ analyzer'.state = "GOING_UP"
               /\ analyzer'.rep_in_progress
               /\ analyzer'.correct_count = analyzer.correct_count
               /\ analyzer'.incorrect_count = analyzer.incorrect_count
               /\ analyzer'.initial_hip_y = analyzer.initial_hip_y
               /\ analyzer'.initial_knee = analyzer.initial_knee
               /\ ~ret'.rep_completed
        /\ ( /\ analyzer'.rep_in_progress
             /\ analyzer'.rep_data.max_angle <= Deg(UP_ANGLE_THRESHOLD + UP_BUFFER) )
            => analyzer'.state = "GOING_UP" ]_vars

\* a window opened at 61 degrees whose later frames went down to 35 degrees
\* without ever passing 65: still GOING_UP, nothing counted
C20_Witness ==
    /\ Processed
    /\ ret.angle < Deg(DOWN_ANGLE_THRESHOLD)
    /\ analyzer.state = "GOING_UP" /\ analyzer.rep_in_progress
    /\ analyzer.rep_data.max_angle <= Deg(UP_ANGLE_THRESHOLD + UP_BUFFER)
    /\ analyzer.rep_data.min_angle = ret.angle
    /\ analyzer.correct_count = 0 /\ analyzer.incorrect_count = 0
    /\ closures = 0

\* C21 (one diagnostic field per call): a call of analyze_situp on a
\* keypoints-missing frame overwrites missing_keypoints (with the required ids
\* absent from the frame, or with the empty list when the call raises on None)
\* and leaves last_feedback as it was, which is never the keypoints-missing
\* message; a call that processes its frame sets last_feedback to the feedback
\* it returns and leaves missing_keypoints as it was.
C21_OneDiagnosticFieldPerCall ==
    [][ Called
        => IF ret'.raised = "none" /\ ret'.feedback # "Missing keypoints: "
           THEN /\ analyzer'.last_feedback = ret'.feedback
                /\ analyzer'.missing_keypoints = analyzer.missing_keypoints
           ELSE /\ analyzer'.last_feedback = analyzer.last_feedback
                /\ analyzer'.last_feedback # "Missing keypoints: "
                /\ Range(analyzer'.missing_keypoints)
                     = IF last_in'.is_none THEN {} ELSE RequiredSet \ last_in'.ids
                /\ Len(analyzer'.missing_keypoints)
                     = Cardinality(Range(analyzer'.missing_keypoints)) ]_vars

\* a window was opened, then a frame with too few keypoints came: the debug
\* snapshot still says "Going up!" while the call returned the missing message
C21_Witness ==
    /\ MissingReturn
    /\ analyzer.last_feedback = "Going up!"
    /\ analyzer.missing_keypoints # <<>>
    /\ analyzer.last_feedback # ret.feedback

=============================================================================
